---- MODULE Spec2Model ----
(***************************************************************************)
(* Model of branding/generate_logo.py: the logo composer (make_svg and its *)
(* three letter strategies), the gradient definition, and the batch driver *)
(* main with its file writes and optional PNG export.                      *)
(*                                                                         *)
(* Python floats are modelled as exact rationals [n, d] in lowest terms    *)
(* with d > 0, so that record equality is numeric equality.                *)
(***************************************************************************)
EXTENDS Integers, Sequences, FiniteSets, TLC

\* ------------------------------------------------------------------------
\* Exact rational arithmetic standing in for Python float arithmetic
\* ------------------------------------------------------------------------
Abs(x) == IF x < 0 THEN -x ELSE x

RECURSIVE GCD(_, _)
GCD(a, b) == IF b = 0 THEN a ELSE GCD(b, a % b)

LCM(a, b) == (a \div GCD(a, b)) * b

Norm(n, d) == LET g == GCD(Abs(n), d) IN [n |-> n \div g, d |-> d \div g]

Q(n, d) == Norm(n, d)

Int2R(k) == [n |-> k, d |-> 1]

Neg(x) == [n |-> -(x.n), d |-> x.d]

Add(x, y) == LET l == LCM(x.d, y.d)
             IN  Norm(x.n * (l \div x.d) + y.n * (l \div y.d), l)

Sub(x, y) == Add(x, Neg(y))

Mul(x, y) == LET g1 == GCD(Abs(x.n), y.d)
                 g2 == GCD(Abs(y.n), x.d)
             IN  Norm((x.n \div g1) * (y.n \div g2), (x.d \div g2) * (y.d \div g1))

Inv(y) == IF y.n > 0 THEN [n |-> y.d, d |-> y.n] ELSE [n |-> -(y.d), d |-> -(y.n)]

Div(x, y) == Mul(x, Inv(y))

Le(x, y) == LET l == LCM(x.d, y.d)
            IN  x.n * (l \div x.d) <= y.n * (l \div y.d)

Lt(x, y) == Le(x, y) /\ x # y

RMax(x, y) == IF Le(x, y) THEN y ELSE x

RMin(x, y) == IF Le(x, y) THEN x ELSE y

Zero == Int2R(0)

One == Int2R(1)

Two == Int2R(2)

Half(x) == Div(x, Two)

\* ------------------------------------------------------------------------
\* LogoSpec.gradient_stops
\* ------------------------------------------------------------------------
Stop(off, col) == [offset |-> off, color |-> col]

\* mutant: two colours padded with the first colour instead of the second
gradient_stops_padfirst(colors) ==
    LET c == IF Len(colors) = 1 THEN <<colors[1], colors[1], colors[1]>>
             ELSE IF Len(colors) = 2 THEN <<colors[1], colors[1], colors[2]>>
             ELSE colors
    IN  IF Len(c) < 3 THEN [ok |-> FALSE, err |-> "IndexError"]
        ELSE [ok |-> TRUE,
              stops |-> <<Stop(0, c[1]), Stop(50, c[2]), Stop(100, c[3])>>]

gradient_stops(colors) ==
    LET c == IF Len(colors) = 1 THEN <<colors[1], colors[1], colors[1]>>
             ELSE IF Len(colors) = 2 THEN <<colors[1], colors[2], colors[2]>>
             ELSE colors
    IN  IF Len(c) < 3 THEN [ok |-> FALSE, err |-> "IndexError"]
        ELSE [ok |-> TRUE,
              stops |-> <<Stop(0, c[1]), Stop(50, c[2]), Stop(100, c[3])>>]

\* ------------------------------------------------------------------------
\* Quantities shared by the three letter strategies
\* ------------------------------------------------------------------------
\* max(0.0, 2 * ring_inner_r - 2 * spec.gap)
available_d(spec, ring_inner_r) ==
    RMax(Zero, Sub(Mul(Two, ring_inner_r), Mul(Two, spec.gap)))

\* max(0.0, min(1.0, spec.u_scale))
clamped_scale(spec) == RMax(Zero, RMin(One, spec.u_scale))

\* max(1.0, spec.size * spec.u_weight_pct)
stroke_w(spec) == RMax(One, Mul(Int2R(spec.size), spec.u_weight_pct))

\* ------------------------------------------------------------------------
\* _manual_letter_path
\* ------------------------------------------------------------------------
\* mutant: the lower bound u_box >= 3 * u_stroke is dropped
manual_u_box_nofloor(spec, ring_inner_r) ==
    RMax(Zero, Mul(available_d(spec, ring_inner_r), clamped_scale(spec)))

manual_u_box(spec, ring_inner_r) ==
    RMax(RMax(Zero, Mul(available_d(spec, ring_inner_r), clamped_scale(spec))),
         Mul(stroke_w(spec), Int2R(3)))

_manual_letter_path(spec, cx, cy, ring_inner_r) ==
    LET u_stroke == stroke_w(spec)
        u_box    == manual_u_box(spec, ring_inner_r)
        left_x   == Sub(cx, Half(u_box))
        right_x  == Add(cx, Half(u_box))
        top_y    == Sub(cy, Half(u_box))
        bottom_y == Add(cy, Half(u_box))
        pad      == Mul(u_box, Q(12, 100))
        eff_left   == Add(left_x, pad)
        eff_right  == Sub(right_x, pad)
        eff_top    == Add(top_y, pad)
        eff_bottom == Sub(bottom_y, pad)
        eff_w    == RMax(One, Sub(eff_right, eff_left))
        eff_h    == RMax(One, Sub(eff_bottom, eff_top))
        stem_x   == eff_left
        bowl_w   == RMax(Mul(u_stroke, Two), Mul(eff_w, Q(60, 100)))
        x_right  == Add(eff_left, bowl_w)
        r_w      == Half(bowl_w)
        r_h      == Half(Mul(eff_h, Q(58, 100)))
        r        == RMax(One, Sub(RMin(r_w, r_h), Half(u_stroke)))
        bowl_bottom_y == RMin(Add(eff_top, Mul(Two, r)),
                              Sub(eff_bottom, Half(u_stroke)))
    IN  [ok |-> TRUE,
         el |-> [kind |-> "manual",
                 \* the five path points M, L, L, A(end), L
                 pts |-> << <<stem_x, eff_bottom>>,
                            <<stem_x, eff_top>>,
                            <<Sub(x_right, r), eff_top>>,
                            <<Sub(x_right, r), bowl_bottom_y>>,
                            <<stem_x, bowl_bottom_y>> >>,
                 r |-> r,
                 stroke_width |-> u_stroke,
                 \* padded box, kept beside the path for reference
                 box |-> [left |-> eff_left, right |-> eff_right,
                          top |-> eff_top, bottom |-> eff_bottom]]]

\* ------------------------------------------------------------------------
\* _text_letter
\* ------------------------------------------------------------------------
_text_letter(spec, cx, cy, ring_inner_r, letter, fill_letter) ==
    LET font_size == RMax(Mul(available_d(spec, ring_inner_r), clamped_scale(spec)),
                          Mul(stroke_w(spec), Int2R(3)))
    IN  [ok |-> TRUE,
         el |-> IF fill_letter
                THEN [kind |-> "text", paint |-> "fill", x |-> cx, y |-> cy,
                      font_size |-> font_size, letter |-> letter]
                ELSE [kind |-> "text", paint |-> "stroke", x |-> cx, y |-> cy,
                      font_size |-> font_size, letter |-> letter,
                      stroke_width |-> stroke_w(spec)]]

\* ------------------------------------------------------------------------
\* Font resources the glyph strategy can be pointed at.  A font is what
\* TTFont / getBestCmap / glyf / head / hmtx return for it.
\* ------------------------------------------------------------------------
NoBBox == [none |-> TRUE]

BBox(x0, y0, x1, y1) == [none |-> FALSE, xMin |-> x0, yMin |-> y0, xMax |-> x1, yMax |-> y1]

Font(isf, rd, cm, bb, upm, adv) ==
    [isfile |-> isf, readable |-> rd, cmap |-> cm, bbox |-> bb,
     unitsPerEm |-> upm, advance |-> adv]

FontFiles ==
    [x \in {"", "missing.ttf", "broken.ttf", "symbols.ttf", "inter.ttf", "plex.otf", "pixel.ttf"} |->
        CASE x = ""            -> Font(FALSE, FALSE, {}, NoBBox, 0, 0)
          [] x = "missing.ttf" -> Font(FALSE, FALSE, {}, NoBBox, 0, 0)
          [] x = "broken.ttf"  -> Font(TRUE, FALSE, {}, NoBBox, 0, 0)
          [] x = "symbols.ttf" -> Font(TRUE, TRUE, {}, NoBBox, 1000, 500)
          [] x = "inter.ttf"   -> Font(TRUE, TRUE, {"P"}, BBox(100, 0, 600, 700), 1000, 640)
          [] x = "plex.otf"    -> Font(TRUE, TRUE, {"P"}, NoBBox, 1000, 600)
          [] x = "pixel.ttf"   -> Font(TRUE, TRUE, {"P"}, BBox(1, 0, 13, 16), 16, 14)]

\* mutant: the existence check is skipped
isfile_unchecked(font_file) == TRUE

\* os.path.isfile(font_file)
isfile(font_file) == FontFiles[font_file].isfile

\* ------------------------------------------------------------------------
\* _glyph_letter
\* ------------------------------------------------------------------------
Micro == 1000000

\* mutant: the requested stroke width is emitted uncompensated
glyph_stroke_attr_uncompensated(sw, scale) == RMax(Q(1, 2), sw)

\* max(0.5, stroke_w / max(scale, 1e-6))
glyph_stroke_attr(sw, scale) == RMax(Q(1, 2), Div(sw, RMax(scale, Q(1, Micro))))

Raise(e) == [ok |-> FALSE, err |-> e]

_glyph_letter(spec, cx, cy, ring_inner_r, letter, font_file, glyph_center, fill_letter, fontTools) ==
    LET font == FontFiles[font_file] IN
    IF ~fontTools THEN Raise("RuntimeError")
    ELSE IF ~isfile(font_file) THEN Raise("FileNotFoundError")
    ELSE IF ~font.readable THEN Raise("TTLibError")
    ELSE IF letter \notin font.cmap THEN Raise("ValueError")
    ELSE
    LET fallback == font.bbox.none
        xmin == IF fallback THEN 0 ELSE font.bbox.xMin
        ymin == IF fallback THEN 0 ELSE font.bbox.yMin
        xmax == IF fallback THEN font.unitsPerEm ELSE font.bbox.xMax
        ymax == IF fallback THEN font.unitsPerEm ELSE font.bbox.yMax
        width  == xmax - xmin
        height == ymax - ymin
        advance_width == font.advance
        cx_outline == Add(Int2R(xmin), Half(Int2R(width)))
        cx_advance == Half(Int2R(advance_width))
        delta_x == IF glyph_center = "advance" THEN Sub(cx_advance, cx_outline) ELSE Zero
        target == Mul(available_d(spec, ring_inner_r), clamped_scale(spec))
        scale  == Div(target, RMax(RMax(Int2R(width), Int2R(height)), One))
        sw     == stroke_w(spec)
        center_x == Add(Add(Int2R(xmin), Half(Int2R(width))), delta_x)
        center_y == Add(Int2R(ymin), Half(Int2R(height)))
        transform == [translate |-> <<cx, cy>>,
                      scale |-> <<scale, Neg(scale)>>,
                      untranslate |-> <<Neg(center_x), Neg(center_y)>>]
    IN  [ok |-> TRUE,
         el |-> IF fill_letter
                THEN [kind |-> "glyph", paint |-> "fill", transform |-> transform,
                      d |-> <<font_file, letter>>]
                ELSE [kind |-> "glyph", paint |-> "stroke", transform |-> transform,
                      d |-> <<font_file, letter>>,
                      stroke_width |-> glyph_stroke_attr(sw, scale)]]

\* ------------------------------------------------------------------------
\* make_svg
\* ------------------------------------------------------------------------
\* mutant: the outer radius is not clamped at 0
ring_outer_r_unclamped(spec) == Sub(Half(Int2R(spec.size)), spec.ring_margin)

ring_outer_r(spec) == RMax(Zero, Sub(Half(Int2R(spec.size)), spec.ring_margin))

ring_inner_r(spec) == RMax(Zero, Sub(ring_outer_r(spec), spec.ring_thickness))

\* mutant: a failing glyph strategy falls back to the hand-authored path
letter_dispatch_fallback(spec, cx, cy, rin, letter, letter_mode, font_file, glyph_center, fill_letter, fontTools) ==
    IF letter_mode = "manual"
    THEN [res |-> _manual_letter_path(spec, cx, cy, rin), ran |-> <<"manual">>]
    ELSE IF letter_mode = "text"
    THEN [res |-> _text_letter(spec, cx, cy, rin, letter, fill_letter), ran |-> <<"text">>]
    ELSE LET g == _glyph_letter(spec, cx, cy, rin, letter, font_file, glyph_center, fill_letter, fontTools)
         IN  IF g.ok THEN [res |-> g, ran |-> <<"glyph">>]
             ELSE [res |-> _manual_letter_path(spec, cx, cy, rin), ran |-> <<"glyph", "manual">>]

\* The conditional expression of lines 238-244: which strategy is called.
\* The result carries the list of strategies that were entered.
letter_dispatch(spec, cx, cy, rin, letter, letter_mode, font_file, glyph_center, fill_letter, fontTools) ==
    IF letter_mode = "manual"
    THEN [res |-> _manual_letter_path(spec, cx, cy, rin), ran |-> <<"manual">>]
    ELSE IF letter_mode = "text"
    THEN [res |-> _text_letter(spec, cx, cy, rin, letter, fill_letter), ran |-> <<"text">>]
    ELSE [res |-> _glyph_letter(spec, cx, cy, rin, letter, font_file, glyph_center, fill_letter, fontTools),
          ran |-> <<"glyph">>]

\* the document template of lines 220-246, filled in the order the f-string
\* evaluates its fields: the two gradient definitions, the ring, the letter
svg_document(spec, g1, g2, lt) ==
    IF ~g1.ok THEN [ok |-> FALSE, err |-> g1.err, ran |-> <<>>]
    ELSE IF ~g2.ok THEN [ok |-> FALSE, err |-> g2.err, ran |-> <<>>]
    ELSE IF ~lt.res.ok THEN [ok |-> FALSE, err |-> lt.res.err, ran |-> lt.ran]
    ELSE [ok |-> TRUE, ran |-> lt.ran,
          doc |-> [viewBox |-> <<0, 0, spec.size, spec.size>>,
                   grad |-> g1.stops,
                   grad_stroke |-> g2.stops,
                   ring |-> [cx |-> Half(Int2R(spec.size)), cy |-> Half(Int2R(spec.size)),
                             r |-> Half(Add(ring_outer_r(spec), ring_inner_r(spec))),
                             stroke_width |-> Sub(ring_outer_r(spec), ring_inner_r(spec))],
                   letter |-> lt.res.el]]

\* rq: [spec, colors, letter, letter_mode, font_file, glyph_center, fill_letter]
\* font_file is the string after "font_file or ''"; fontTools: whether the
\* fontTools import succeeds in this environment.
make_svg(rq, fontTools) ==
    svg_document(rq.spec,
                 gradient_stops(rq.colors),
                 gradient_stops(rq.colors),
                 letter_dispatch(rq.spec, Half(Int2R(rq.spec.size)), Half(Int2R(rq.spec.size)),
                                 ring_inner_r(rq.spec), rq.letter, rq.letter_mode,
                                 rq.font_file, rq.glyph_center, rq.fill_letter, fontTools))

\* ------------------------------------------------------------------------
\* Bounds and input sets
\* ------------------------------------------------------------------------
MaxSizes == 2

MaxColors == 3

MaxRuns == 2

SizeChoices == {16, 100}

Palette == {"#111111", "#eeeeee"}

DEFAULT_COLORS == <<"#4f46e5", "#0284c7", "#059669">>

SeqsUpTo(S, lo, hi) == UNION {[1..k -> S] : k \in lo..hi}

\* ------------------------------------------------------------------------
\* State
\* ------------------------------------------------------------------------
VARIABLES
    args,      \* the parsed command line (argparse.Namespace)
    env,       \* which optional imports succeed: fontTools, cairosvg
    pc,        \* position in main / in a direct make_svg call
    todo,      \* sizes the for-loop of main has not processed yet
    files,     \* content of every output path
    written,   \* files this run has written completely, in order, with the content given
    err,       \* the exception that left main, if any
    last,      \* the most recent collaborator call of this run and its outcome
    req,       \* the most recent make_svg request
    res,       \* and its result
    runs,      \* invocations so far
    prev       \* only_canonical flag and logo.svg of the previous successful run

vars == <<args, env, pc, todo, files, written, err, last, req, res, runs, prev>>

None == [none |-> TRUE]

NoCall == [op |-> "none", outcome |-> "ok"]

\* ------------------------------------------------------------------------
\* Output paths and the file system
\* ------------------------------------------------------------------------
Name(sfx, ext) == [suffix |-> sfx, ext |-> ext]

LogoSvg == Name(<<>>, "svg")

SizedSvg(s) == Name(<<s>>, "svg")

SizedPng(s) == Name(<<s>>, "png")

FileNames == {LogoSvg} \cup {SizedSvg(s) : s \in SizeChoices} \cup {SizedPng(s) : s \in SizeChoices}

Absent == [absent |-> TRUE]

Truncated == [truncated |-> TRUE]

\* write_svg: makedirs/open may raise before the file is touched, f.write may
\* raise after open(path, "w") truncated it
WriteOutcomes == {"ok", "OSError_open", "OSError_write"}

write_svg(fs, path, content, outcome) ==
    CASE outcome = "ok"            -> [fs EXCEPT ![path] = content]
      [] outcome = "OSError_write" -> [fs EXCEPT ![path] = Truncated]
      [] OTHER                     -> fs

\* export_pngs: the import of cairosvg may fail; svg2png may raise, before or
\* after it opened the output file
ExportOutcomes == {"ok", "Error_render", "Error_write"}

\* mutant: a missing rasterizer makes the export a silent no-op
export_pngs_skip(cairosvg, outcome) ==
    IF ~cairosvg THEN "skipped" ELSE outcome

export_pngs(cairosvg, outcome) ==
    IF ~cairosvg THEN "RuntimeError" ELSE outcome

png_file(fs, path, svg, size, outcome) ==
    CASE outcome = "ok"          -> [fs EXCEPT ![path] = [png_of |-> svg, width |-> size, height |-> size]]
      [] outcome = "Error_write" -> [fs EXCEPT ![path] = Truncated]
      [] OTHER                   -> fs

\* ------------------------------------------------------------------------
\* main: argument post-processing
\* ------------------------------------------------------------------------
\* tuple(args.colors[:3]) if args.colors else DEFAULT_COLORS
Colors(a) == IF a.colors = <<>> THEN DEFAULT_COLORS
             ELSE IF Len(a.colors) > 3 THEN SubSeq(a.colors, 1, 3) ELSE a.colors

SetMin(S) == CHOOSE x \in S : \A y \in S : x <= y

SetMax(S) == CHOOSE x \in S : \A y \in S : y <= x

RECURSIVE Sorted(_)
Sorted(S) == IF S = {} THEN <<>> ELSE <<SetMin(S)>> \o Sorted(S \ {SetMin(S)})

Range(sq) == {sq[i] : i \in 1..Len(sq)}

RECURSIVE SortedBag(_)
SortedBag(sq) ==
    IF sq = <<>> THEN <<>>
    ELSE LET m == SetMin(Range(sq))
             i == CHOOSE j \in 1..Len(sq) : sq[j] = m
         IN  <<m>> \o SortedBag(SubSeq(sq, 1, i - 1) \o SubSeq(sq, i + 1, Len(sq)))

\* mutant: sorted(...) without set(...): duplicates are kept
sizes_with_duplicates(a) == SortedBag(a.sizes)

\* sorted(set(int(s) for s in args.sizes))
sizes_of(a) == Sorted(Range(a.sizes))

\* max(sizes) if sizes else 512
largest_of(a) == IF sizes_of(a) = <<>> THEN 512 ELSE SetMax(Range(sizes_of(a)))

LogoSpec(size, ring_thickness, ring_margin, gap, u_weight_pct, u_scale) ==
    [size |-> size, ring_thickness |-> ring_thickness, ring_margin |-> ring_margin,
     gap |-> gap, u_weight_pct |-> u_weight_pct, u_scale |-> u_scale]

\* the spec of the only-canonical branch (line 299)
only_canonical_spec(a, s) ==
    LogoSpec(s, a.ring, a.ring_margin, a.gap, a.uweight, a.uscale)

\* the per-size spec of the loop (lines 311-324)
loop_spec(a, s) ==
    IF a.profile = "icon"
    THEN LogoSpec(s, Mul(Int2R(s), Q(9, 100)), Mul(Int2R(s), Q(6, 100)),
                  RMax(Int2R(4), Mul(Int2R(s), Q(35, 1000))), Q(10, 100), Q(50, 100))
    ELSE LogoSpec(s, a.ring, a.ring_margin, a.gap, a.uweight, a.uscale)

\* mutant: the canonical file is composed from the base options only
canonical_spec_base(a, lg) ==
    LogoSpec(lg, a.ring, a.ring_margin, a.gap, a.uweight, a.uscale)

\* the spec of the canonical file after the loop (lines 335-348)
canonical_spec(a, lg) ==
    IF a.profile = "icon"
    THEN LogoSpec(lg, Mul(Int2R(lg), Q(9, 100)), Mul(Int2R(lg), Q(6, 100)),
                  RMax(Int2R(4), Mul(Int2R(lg), Q(35, 1000))), Q(10, 100), Q(50, 100))
    ELSE LogoSpec(lg, a.ring, a.ring_margin, a.gap, a.uweight, a.uscale)

\* the make_svg call main issues for a spec (lines 300, 325, 349)
Request(a, spec) ==
    [spec |-> spec, colors |-> Colors(a), letter |-> a.letter,
     letter_mode |-> a.letter_mode, font_file |-> a.font_file,
     glyph_center |-> a.glyph_center, fill_letter |-> a.fill_letter]

\* ------------------------------------------------------------------------
\* Command lines main is run with
\* ------------------------------------------------------------------------
BaseOptions ==
    { [ring |-> Int2R(12), ring_margin |-> Int2R(8), gap |-> Int2R(10),
       uweight |-> Q(12, 100), uscale |-> Q(60, 100)],
      [ring |-> Int2R(4), ring_margin |-> Int2R(60), gap |-> Zero,
       uweight |-> Q(1, 2), uscale |-> One] }

LetterArgs ==
    { [mode |-> "manual", font |-> ""], [mode |-> "text", font |-> ""] }
    \cup { [mode |-> "glyph", font |-> f] : f \in {"missing.ttf", "symbols.ttf", "inter.ttf"} }

ColorArgs == { <<>>, <<"#111111", "#eeeeee", "#222222", "#333333">> }

MainArgs ==
    { [sizes |-> sz, png |-> pg, colors |-> co,
       ring |-> b.ring, ring_margin |-> b.ring_margin, gap |-> b.gap,
       uweight |-> b.uweight, uscale |-> b.uscale,
       only_canonical |-> oc, profile |-> pr, letter |-> "P",
       letter_mode |-> lt.mode, font_file |-> lt.font,
       glyph_center |-> "advance", fill_letter |-> FALSE] :
      sz \in SeqsUpTo(SizeChoices, 0, MaxSizes), pg \in BOOLEAN, co \in ColorArgs,
      b \in BaseOptions, oc \in BOOLEAN, pr \in {"default", "icon"}, lt \in LetterArgs }

\* an import that the command line never reaches is taken to succeed
Envs(a) == { e \in [fontTools : BOOLEAN, cairosvg : BOOLEAN] :
                /\ (a.letter_mode # "glyph" => e.fontTools)
                /\ (~a.png => e.cairosvg) }

\* ------------------------------------------------------------------------
\* main
\* ------------------------------------------------------------------------
Init ==
    /\ args \in MainArgs
    /\ env \in Envs(args)
    /\ pc = "start"
    /\ todo = <<>>
    /\ files = [f \in FileNames |-> Absent]
    /\ written = <<>>
    /\ err = None
    /\ last = NoCall
    /\ req = None
    /\ res = None
    /\ runs = 1
    /\ prev = None

\* lines 291-297, 307: parse, then branch on --only-canonical
Start ==
    /\ pc = "start"
    /\ pc' = IF args.only_canonical THEN "only" ELSE "loop"
    /\ todo' = IF args.only_canonical THEN <<>> ELSE sizes_of(args)
    /\ UNCHANGED <<args, env, files, written, err, last, req, res, runs, prev>>

Call(op, outcome) == [op |-> op, outcome |-> outcome]

\* what main does with the result r of make_svg(rq): write_svg it to path;
\* an exception of either call leaves main at once
Emit(rq, r, path, o, pcOk, todoOk) ==
    /\ req' = rq
    /\ res' = r
    /\ IF ~r.ok
       THEN /\ last' = Call("make_svg", r.err)
            /\ err' = Call("make_svg", r.err)
            /\ pc' = "aborted"
            /\ UNCHANGED <<files, written, todo>>
       ELSE IF o # "ok"
       THEN /\ last' = Call("write_svg", o)
            /\ err' = Call("write_svg", o)
            /\ pc' = "aborted"
            /\ files' = write_svg(files, path, r.doc, o)
            /\ UNCHANGED <<written, todo>>
       ELSE /\ last' = Call("write_svg", "ok")
            /\ files' = write_svg(files, path, r.doc, o)
            /\ written' = Append(written, [name |-> path, content |-> r.doc])
            /\ pc' = pcOk
            /\ todo' = todoOk
            /\ UNCHANGED err

\* make_svg followed by write_svg, as main does three times
EmitSvg(rq, path, o, pcOk, todoOk) ==
    Emit(rq, make_svg(rq, env.fontTools), path, o, pcOk, todoOk)

\* lines 297-304
OnlyCanonical ==
    /\ pc = "only"
    /\ \E o \in WriteOutcomes :
          EmitSvg(Request(args, only_canonical_spec(args, largest_of(args))), LogoSvg, o, "done", todo)
    /\ UNCHANGED <<args, env, runs, prev>>

\* lines 309-328
LoopSvg ==
    /\ pc = "loop"
    /\ todo # <<>>
    /\ \E o \in WriteOutcomes :
          EmitSvg(Request(args, loop_spec(args, Head(todo))), SizedSvg(Head(todo)), o,
                  IF args.png THEN "png" ELSE "loop",
                  IF args.png THEN todo ELSE Tail(todo))
    /\ UNCHANGED <<args, env, runs, prev>>

IsError(outcome) == outcome \in {"RuntimeError", "Error_render", "Error_write"}

\* lines 330-333
LoopPng ==
    /\ pc = "png"
    /\ \E o \in ExportOutcomes :
          LET s   == Head(todo)
              out == export_pngs(env.cairosvg, o)
              png == [png_of |-> res.doc, width |-> s, height |-> s]
          IN  /\ last' = Call("export_pngs", out)
              /\ files' = png_file(files, SizedPng(s), res.doc, s, out)
              /\ IF IsError(out)
                 THEN /\ err' = Call("export_pngs", out)
                      /\ pc' = "aborted"
                      /\ UNCHANGED <<written, todo>>
                 ELSE /\ written' = IF out = "ok"
                                    THEN Append(written, [name |-> SizedPng(s), content |-> png])
                                    ELSE written
                      /\ pc' = "loop"
                      /\ todo' = Tail(todo)
                      /\ UNCHANGED err
    /\ UNCHANGED <<args, env, req, res, runs, prev>>

\* lines 335-352
Canonical ==
    /\ pc = "loop"
    /\ todo = <<>>
    /\ \E o \in WriteOutcomes :
          EmitSvg(Request(args, canonical_spec(args, largest_of(args))), LogoSvg, o, "done", todo)
    /\ UNCHANGED <<args, env, runs, prev>>

\* the program is run again on the same output directory with the same
\* options and the other value of --only-canonical
Invoke ==
    /\ pc \in {"done", "aborted"}
    /\ runs < MaxRuns
    /\ runs' = runs + 1
    /\ args' = [args EXCEPT !.only_canonical = ~@]
    /\ prev' = IF pc = "done"
               THEN [none |-> FALSE, only_canonical |-> args.only_canonical,
                     logo |-> files[LogoSvg]]
               ELSE None
    /\ pc' = "start"
    /\ todo' = <<>>
    /\ written' = <<>>
    /\ err' = None
    /\ last' = NoCall
    /\ req' = None
    /\ res' = None
    /\ UNCHANGED <<env, files>>

Next == Start \/ OnlyCanonical \/ LoopSvg \/ LoopPng \/ Canonical \/ Invoke

Spec == Init /\ [][Next]_vars

\* ------------------------------------------------------------------------
\* make_svg called directly, over a grid of requests
\* ------------------------------------------------------------------------
ComposeSpecs ==
    { LogoSpec(s, th, mg, gp, w, sc) :
        s \in {1, 16, 100}, th \in {Zero, Int2R(12)}, mg \in {Zero, Int2R(8), Int2R(60)},
        gp \in {Zero, Int2R(10)}, w \in {Zero, Q(12, 100), Int2R(5)},
        sc \in {Zero, Q(60, 100), Two} }

DefaultSpec == LogoSpec(512, Int2R(12), Int2R(8), Int2R(10), Q(12, 100), Q(60, 100))

Letter(mode, font, center, fill) ==
    [mode |-> mode, font |-> font, center |-> center, fill |-> fill]

LetterOptions ==
    { Letter("manual", "", "advance", FALSE) }
    \cup { Letter("text", "", "advance", fl) : fl \in BOOLEAN }
    \cup { Letter("glyph", f, c, fl) :
             f \in {"inter.ttf", "plex.otf", "pixel.ttf"}, c \in {"advance", "outline"}, fl \in BOOLEAN }
    \cup { Letter("glyph", f, "advance", FALSE) :
             f \in {"", "missing.ttf", "broken.ttf", "symbols.ttf"} }
    \cup { Letter("path", "inter.ttf", "advance", FALSE) }

ColorLists == SeqsUpTo(Palette, 1, MaxColors)

Rq(spec, colors, lt) ==
    [spec |-> spec, colors |-> colors, letter |-> "P", letter_mode |-> lt.mode,
     font_file |-> lt.font, glyph_center |-> lt.center, fill_letter |-> lt.fill]

Requests ==
    { Rq(sp, DEFAULT_COLORS, lt) : sp \in ComposeSpecs \cup {DefaultSpec}, lt \in LetterOptions }
    \cup { Rq(DefaultSpec, co, lt) : co \in ColorLists, lt \in LetterOptions }

InitCompose ==
    /\ req \in Requests
    /\ env \in { e \in [fontTools : BOOLEAN, cairosvg : {TRUE}] :
                   req.letter_mode \in {"manual", "text"} => e.fontTools }
    /\ pc = "call"
    /\ res = None
    /\ args = None
    /\ todo = <<>>
    /\ files = [f \in FileNames |-> Absent]
    /\ written = <<>>
    /\ err = None
    /\ last = NoCall
    /\ runs = 1
    /\ prev = None

Compose ==
    /\ pc = "call"
    /\ res' = make_svg(req, env.fontTools)
    /\ pc' = "returned"
    /\ UNCHANGED <<args, env, todo, files, written, err, last, req, runs, prev>>

NextCompose == Compose

SpecCompose == InitCompose /\ [][NextCompose]_vars

\* ========================================================================
\* Properties of make_svg (checked under SpecCompose)
\* ========================================================================

\* C8: for every colour list of length 1, 2 or 3 gradient_stops yields exactly
\* three stops at offsets 0, 50, 100 in that order: [c, c, c] for one colour,
\* [c0, c1, c1] for two, [c0, c1, c2] for three; and the fill and the stroke
\* gradient of the document carry the same stops.
C8_GradientStops ==
    (pc = "returned" /\ Len(req.colors) \in 1..3) =>
        LET c  == req.colors
            n  == Len(c)
            c0 == c[1]
            c1 == IF n = 1 THEN c[1] ELSE c[2]
            c2 == IF n = 1 THEN c[1] ELSE IF n = 2 THEN c[2] ELSE c[3]
            expected == << [offset |-> 0, color |-> c0],
                           [offset |-> 50, color |-> c1],
                           [offset |-> 100, color |-> c2] >>
        IN  /\ gradient_stops(c) = [ok |-> TRUE, stops |-> expected]
            /\ res.ok => /\ res.doc.grad = expected
                         /\ res.doc.grad_stroke = expected

C8_Witness ==
    /\ pc = "returned"
    /\ Len(req.colors) = 2
    /\ req.colors[1] # req.colors[2]
    /\ res.ok
    /\ res.doc.grad[3].color = req.colors[2]
    /\ res.doc.grad_stroke[2].color = req.colors[2]

\* C7: for size > 0 and non-negative margin and thickness the ring circle is
\* emitted with r = (outer + inner) / 2 and stroke-width = outer - inner, where
\* outer = max(0, size/2 - margin) and inner = max(0, outer - thickness), both
\* values >= 0; with margin >= size/2 both radii are 0 and the document is
\* still produced (the geometry never makes a request fail: a request whose
\* letter strategy can run yields a document).
C7_RingGeometry ==
    (/\ pc = "returned"
     /\ req.spec.size > 0
     /\ Le(Zero, req.spec.ring_margin)
     /\ Le(Zero, req.spec.ring_thickness)) =>
        LET half  == Q(req.spec.size, 2)
            o1    == Sub(half, req.spec.ring_margin)
            outer == IF Le(o1, Zero) THEN Zero ELSE o1
            i1    == Sub(outer, req.spec.ring_thickness)
            inner == IF Le(i1, Zero) THEN Zero ELSE i1
            font  == FontFiles[req.font_file]
            letterCanRun ==
                \/ req.letter_mode \in {"manual", "text"}
                \/ env.fontTools /\ font.isfile /\ font.readable /\ req.letter \in font.cmap
        IN  /\ res.ok => /\ res.doc.ring.r = Q(outer.n * inner.d + inner.n * outer.d,
                                                2 * outer.d * inner.d)
                         /\ res.doc.ring.stroke_width = Sub(outer, inner)
                         /\ res.doc.ring.r.n >= 0
                         /\ res.doc.ring.stroke_width.n >= 0
            /\ letterCanRun => res.ok
            /\ (Le(half, req.spec.ring_margin) /\ res.ok) =>
                    /\ outer = Zero /\ inner = Zero
                    /\ res.doc.ring.r = Zero
                    /\ res.doc.ring.stroke_width = Zero

C7_Witness ==
    /\ pc = "returned"
    /\ req.spec.size = 100
    /\ req.spec.ring_margin = Int2R(60)
    /\ req.letter_mode = "glyph"
    /\ res.ok
    /\ res.doc.ring.r = Zero

\* C9: in the hand-authored path strategy, for every spec, the arc radius is
\* strictly positive, each of the five path points lies inside the padded box
\* [eff_left, eff_right] x [eff_top, eff_bottom], the arc end is no lower than
\* eff_bottom minus half the stroke width, and the arc start is not left of
\* the stem.
C9_ManualPathInBox ==
    (pc = "returned" /\ req.letter_mode = "manual") =>
        /\ res.ok
        /\ res.doc.letter.kind = "manual"
        /\ LET el  == res.doc.letter
               box == el.box
           IN  /\ el.r.n > 0
               /\ \A i \in 1..5 :
                     /\ Le(box.left, el.pts[i][1]) /\ Le(el.pts[i][1], box.right)
                     /\ Le(box.top, el.pts[i][2]) /\ Le(el.pts[i][2], box.bottom)
               /\ Le(el.pts[4][2], Sub(box.bottom, Half(el.stroke_width)))
               /\ Le(el.pts[1][1], el.pts[3][1])

C9_Witness ==
    /\ pc = "returned"
    /\ req.letter_mode = "manual"
    /\ req.spec.u_weight_pct = Int2R(5)
    /\ req.spec.ring_margin = Int2R(60)
    /\ res.ok
    /\ res.doc.letter.r.n > 0
    /\ res.doc.letter.stroke_width = Int2R(500)

\* C4: every make_svg request enters exactly one letter strategy, the one its
\* letter_mode names (manual, text, anything else: glyph); when the glyph
\* strategy cannot run, no other strategy is entered and the request fails
\* with the glyph strategy's error.
C4_OneStrategyNoFallback ==
    pc = "returned" =>
        LET font == FontFiles[req.font_file]
            glyphCannotRun ==
                ~env.fontTools \/ ~font.isfile \/ ~font.readable \/ req.letter \notin font.cmap
        IN  /\ Len(res.ran) = 1
            /\ req.letter_mode = "manual" => res.ran[1] = "manual"
            /\ req.letter_mode = "text" => res.ran[1] = "text"
            /\ req.letter_mode \notin {"manual", "text"} => res.ran[1] = "glyph"
            /\ res.ok => res.doc.letter.kind = res.ran[1]
            /\ (req.letter_mode \notin {"manual", "text"} /\ glyphCannotRun) =>
                    /\ ~res.ok
                    /\ res.err \in {"RuntimeError", "FileNotFoundError", "TTLibError", "ValueError"}

C4_Witness ==
    /\ pc = "returned"
    /\ req.letter_mode = "glyph"
    /\ req.font_file = "symbols.ttf"
    /\ env.fontTools
    /\ ~res.ok
    /\ res.err = "ValueError"
    /\ res.ran = <<"glyph">>

\* C6 as stated: for the glyph strategy in stroked mode, for every glyph
\* bounding box and every spec, the emitted stroke-width times the applied
\* scale factor equals the requested stroke width max(1, size * weight).
C6_StrokeTimesScaleAlways ==
    (/\ pc = "returned" /\ res.ok
     /\ res.doc.letter.kind = "glyph" /\ res.doc.letter.paint = "stroke") =>
        Mul(res.doc.letter.stroke_width, res.doc.letter.transform.scale[1])
            = RMax(One, Mul(Int2R(req.spec.size), req.spec.u_weight_pct))

\* C6 amended: the product equals the requested stroke width whenever the
\* scale factor is at least 1e-6 and the requested width is at least half the
\* scale factor; below a scale of 1e-6 the emitted width is the request times
\* 10^6 (product smaller than the request), and when the request is less than
\* half the scale factor the emitted width is 0.5 (product larger than the
\* request).
C6_StrokeCompensation ==
    (/\ pc = "returned" /\ res.ok
     /\ res.doc.letter.kind = "glyph" /\ res.doc.letter.paint = "stroke") =>
        LET emitted   == res.doc.letter.stroke_width
            scale     == res.doc.letter.transform.scale[1]
            requested == RMax(One, Mul(Int2R(req.spec.size), req.spec.u_weight_pct))
        IN  IF Lt(scale, Q(1, 1000000))
            THEN /\ emitted = Mul(requested, Int2R(1000000))
                 /\ Lt(Mul(emitted, scale), requested)
            ELSE IF Lt(Mul(requested, Two), scale)
            THEN /\ emitted = Q(1, 2)
                 /\ Lt(requested, Mul(emitted, scale))
            ELSE Mul(emitted, scale) = requested

C6_Witness ==
    /\ pc = "returned" /\ res.ok
    /\ res.doc.letter.kind = "glyph" /\ res.doc.letter.paint = "stroke"
    /\ req.font_file = "inter.ttf"
    /\ Lt(Zero, res.doc.letter.transform.scale[1])
    /\ Lt(res.doc.letter.transform.scale[1], One)
    /\ Lt(One, res.doc.letter.stroke_width)
    /\ Mul(res.doc.letter.stroke_width, res.doc.letter.transform.scale[1]) = Int2R(12)

\* ========================================================================
\* Properties of main (checked under Spec)
\* ========================================================================

\* C1: in a batch run any failure (font lookup, SVG write, PNG export) aborts
\* the run at the step that failed: every file the run wrote before keeps the
\* content it was given, nothing is written after the failure, and the error
\* leaves main (it is the error of the failing call, and a run that ends
\* normally had no failing call).
C1_AbortKeepsWrittenFiles ==
    /\ [](/\ \A i \in 1..Len(written) : files[written[i].name] = written[i].content
          /\ last.outcome # "ok" => (pc = "aborted" /\ err = last)
          /\ pc = "aborted" => (err # None /\ err.outcome # "ok")
          /\ pc = "done" => (err = None /\ last.outcome = "ok"))
    /\ [][pc = "aborted" => (files' = files /\ (written' = written \/ pc' = "start"))]_vars

C1_Witness ==
    /\ pc = "aborted"
    /\ ~args.only_canonical
    /\ Len(written) = 3
    /\ written[1].name = SizedSvg(16)
    /\ written[2].name = SizedPng(16)
    /\ written[3].name = SizedSvg(100)
    /\ err = Call("export_pngs", "Error_write")
    /\ files[SizedPng(100)] = Truncated
    /\ files[SizedSvg(16)] = written[1].content
    /\ files[LogoSvg] = Absent

\* C2 as stated: whenever rasterization is requested and the rasterizer is
\* unavailable the run reports a capability error; under no combination of
\* options (canonical-only included) does such a run end successfully.
C2_NeverSilentlySkipped ==
    (args.png /\ ~env.cairosvg) => pc # "done"

\* C2 amended: with --png, without --only-canonical and with at least one
\* size, a missing rasterizer never lets the run end successfully: the run
\* aborts with the capability error at the first size's export, unless
\* composing or writing that size's SVG failed first; no PNG is ever written.
\* With --only-canonical or an empty size list the export is never attempted.
C2_ExportReportsMissingRasterizer ==
    (args.png /\ ~env.cairosvg) =>
        /\ \A s \in SizeChoices : files[SizedPng(s)] = Absent
        /\ (~args.only_canonical /\ args.sizes # <<>>) =>
              /\ pc # "done"
              /\ pc = "aborted" =>
                    \/ err = Call("export_pngs", "RuntimeError") /\ Len(written) = 1
                    \/ err.op \in {"make_svg", "write_svg"} /\ written = <<>>
        /\ (args.only_canonical \/ args.sizes = <<>>) => last.op # "export_pngs"

C2_Witness ==
    /\ pc = "aborted"
    /\ args.png /\ ~env.cairosvg /\ ~args.only_canonical
    /\ err = Call("export_pngs", "RuntimeError")
    /\ Len(written) = 1
    /\ files[written[1].name] = written[1].content

\* C3 as stated: the glyph strategy with a font path that does not exist
\* yields a resource-not-found error, make_svg returns no document and main
\* writes no file.
C3_MissingFontIsNotFound ==
    (/\ pc \in {"done", "aborted"}
     /\ args.letter_mode = "glyph"
     /\ ~FontFiles[args.font_file].isfile) =>
        /\ pc = "aborted"
        /\ ~res.ok
        /\ err = Call("make_svg", "FileNotFoundError")
        /\ written = <<>>
        /\ \A f \in FileNames : files[f] = Absent

\* C3 amended: the glyph strategy with a font path that does not exist yields
\* the resource-not-found error when fontTools can be imported, and the
\* missing-fontTools capability error otherwise; either way make_svg returns
\* no document and main writes no file.
C3_MissingFontNoOutput ==
    (/\ pc \in {"done", "aborted"}
     /\ args.letter_mode = "glyph"
     /\ ~FontFiles[args.font_file].isfile) =>
        /\ pc = "aborted"
        /\ ~res.ok
        /\ err = Call("make_svg", IF env.fontTools THEN "FileNotFoundError" ELSE "RuntimeError")
        /\ written = <<>>
        /\ \A f \in FileNames : files[f] = Absent

C3_Witness ==
    /\ pc = "aborted"
    /\ args.letter_mode = "glyph"
    /\ args.font_file = "missing.ttf"
    /\ env.fontTools
    /\ ~res.ok
    /\ res.err = "FileNotFoundError"
    /\ written = <<>>

\* C5: in a successful batch run without --only-canonical, logo.svg is written
\* last, after every logo_<s>.svg, which are written in ascending order of the
\* de-duplicated sizes; its content is that of logo_<max>.svg (the document
\* for the largest requested size under the same profile overrides) when the
\* size list is non-empty.
C5_CanonicalLastAndLargest ==
    (pc = "done" /\ ~args.only_canonical) =>
        LET n      == Len(written)
            sized  == SelectSeq(SubSeq(written, 1, n - 1), LAMBDA w : w.name.ext = "svg")
            wanted == {args.sizes[i] : i \in 1..Len(args.sizes)}
        IN  /\ n >= 1
            /\ written[n].name = LogoSvg
            /\ files[LogoSvg] = written[n].content
            /\ \A i \in 1..Len(sized) : Len(sized[i].name.suffix) = 1
            /\ \A i, j \in 1..Len(sized) :
                  i < j => sized[i].name.suffix[1] < sized[j].name.suffix[1]
            /\ {sized[i].name.suffix[1] : i \in 1..Len(sized)} = wanted
            /\ wanted # {} =>
                  LET mx == CHOOSE m \in wanted : \A x \in wanted : x <= m
                  IN  /\ files[LogoSvg] = files[SizedSvg(mx)]
                      /\ files[LogoSvg].viewBox = <<0, 0, mx, mx>>

C5_Witness ==
    /\ pc = "done"
    /\ ~args.only_canonical
    /\ args.profile = "icon"
    /\ args.sizes = <<100, 16>>
    /\ args.png
    /\ Len(written) = 5
    /\ written[5].name = LogoSvg
    /\ files[LogoSvg] = files[SizedSvg(100)]
    /\ files[LogoSvg] # files[SizedSvg(16)]

\* C10: for fixed other options, the logo.svg written with --only-canonical is
\* identical to the logo.svg written without it.
C10_CanonicalOnlySameLogo ==
    (/\ pc = "done"
     /\ ~prev.none
     /\ prev.only_canonical # args.only_canonical) =>
        files[LogoSvg] = prev.logo

====
